---- MODULE Spec2Model ----
(***************************************************************************)
(* podctl.py: the pod command client.  Two threads share one Pod object:   *)
(* the thread running Heart.start (which calls Pod.ping every interval)    *)
(* and the main thread running main()/loop().  There is no lock, so every  *)
(* load or store of a shared attribute is a step of its own and the two    *)
(* threads interleave between any two of them.                             *)
(*                                                                         *)
(* A label names the source line a thread is about to execute, prefixed    *)
(* by the function it belongs to ("send_152" is line 152, inside send).    *)
(* stk[t] is the call stack of thread t: the labels its callers resume at. *)
(***************************************************************************)
EXTENDS Integers, Sequences, FiniteSets, TLC

\* ------------------------------------------------------------------ bounds
MaxTime == 2      \* the clock runs from 0 to MaxTime
MaxConn == 2      \* sockets create_connection may return in one run
MaxRecv == 1      \* PONGs counted in Pod.recieved
MaxIntr == 1      \* SIGINTs delivered to the main thread

\* ------------------------------------------------------- program constants
PING_TIMEOUT == 1                      \* timedelta(seconds=1)
NoSock == 0                            \* self.sock = None
None == <<>>                           \* an optional value: <<>> or <<v>>
Some(v) == <<v>>

Threads == {"hb", "main"}

VARIABLES
    pc,         \* pc[t]: the label thread t is at
    stk,        \* stk[t]: return labels of the calls in progress
    rv,         \* rv[t]: value returned by the call that just returned
    sock,       \* Pod.sock: NoSock or the id of a socket object
    fds,        \* ids of the socket objects whose descriptor is open
    nconn,      \* socket objects created so far (ids are 1..nconn)
    ponged,     \* ids of the sockets a PONG has been read from
    recieved,   \* Pod.recieved
    last_ping,  \* Pod.last_ping
    state,      \* Pod.state: None or Some(ordinal)
    running,    \* Heart.running
    timed_out,  \* ping's local timed_out
    ready,      \* loop's local ready: [sock |-> id or NoSock, stdin |-> BOOLEAN]
    data,       \* loop's local data: None or Some(text)
    now,        \* datetime.now()
    intr,       \* SIGINTs delivered so far
    sent,       \* <<id, text>>: text was written to the socket object id
    eof,        \* ids of the sockets whose peer has closed the connection
    rst,        \* ids of the sockets the peer has answered with a reset
    LAST_PROMPT,    \* the global LAST_PROMPT of make_prompt
    PROMPT_TRACK    \* the global PROMPT_TRACK of progress

vars == <<pc, stk, rv, sock, fds, nconn, ponged, recieved, last_ping, state,
          running, timed_out, ready, data, now, intr, sent, eof, rst,
          LAST_PROMPT, PROMPT_TRACK>>

\* The terminal: make_prompt and progress are its only readers and writers.
\* Spec follows the Pod, the Heart and the two threads; SpecPrompt follows
\* the terminal.
terminal == <<LAST_PROMPT, PROMPT_TRACK>>
wire == <<sent, eof, rst>>
session == <<sock, fds, nconn, ponged, recieved, last_ping, state, wire>>
locals == <<timed_out, ready, data>>
env == <<running, now, intr, terminal>>

\* ------------------------------------------------------------ text values
\* A text is a sequence of one-character strings.
PONG == <<"P", "O", "N", "G">>
Whitespace == {" ", "\n", "\r", "\t"}
Digits == {"0", "1", "2", "3", "4", "5", "6", "7", "8", "9"}

DigitVal(c) ==
    CASE c = "0" -> 0 [] c = "1" -> 1 [] c = "2" -> 2 [] c = "3" -> 3
      [] c = "4" -> 4 [] c = "5" -> 5 [] c = "6" -> 6 [] c = "7" -> 7
      [] c = "8" -> 8 [] c = "9" -> 9

\* sub in s  (str.__contains__)
Contains(s, sub) ==
    \E i \in 1..(Len(s) - Len(sub) + 1) : SubSeq(s, i, i + Len(sub) - 1) = sub

\* s.split(sep) for a one-character sep: the list of pieces
RECURSIVE Split(_, _)
Split(s, sep) ==
    IF \A i \in 1..Len(s) : s[i] # sep
    THEN <<s>>
    ELSE LET i == CHOOSE k \in 1..Len(s) :
                      s[k] = sep /\ \A j \in 1..(k - 1) : s[j] # sep
         IN  <<SubSeq(s, 1, i - 1)>> \o Split(SubSeq(s, i + 1, Len(s)), sep)

\* s.strip()
RECURSIVE Strip(_)
Strip(s) ==
    IF s = <<>> THEN s
    ELSE IF s[1] \in Whitespace THEN Strip(Tail(s))
    ELSE IF s[Len(s)] \in Whitespace THEN Strip(SubSeq(s, 1, Len(s) - 1))
    ELSE s

RECURSIVE DigitsVal(_)
DigitsVal(s) ==
    IF s = <<>> THEN 0
    ELSE 10 * DigitsVal(SubSeq(s, 1, Len(s) - 1)) + DigitVal(s[Len(s)])

\* int(s): [ok |-> TRUE, val |-> n], or ok = FALSE where int raises ValueError
ParseInt(s) ==
    LET t == Strip(s)
        neg == t # <<>> /\ t[1] = "-"
        body == IF t # <<>> /\ t[1] \in {"-", "+"} THEN Tail(t) ELSE t
    IN  IF body # <<>> /\ \A i \in 1..Len(body) : body[i] \in Digits
        THEN [ok |-> TRUE,
              val |-> IF neg THEN 0 - DigitsVal(body) ELSE DigitsVal(body)]
        ELSE [ok |-> FALSE, val |-> 0]

\* ---------------------------------------------------------------- control
Top(s) == s[Len(s)]
Pop(s) == SubSeq(s, 1, Len(s) - 1)

OSErrors == {"OSError"}
Errors == {"OSError", "AttributeError", "TypeError", "ValueError", "IndexError"}

\* The except clauses of main(), lines 299-311, in the order Python tries them.
MainHandler(exc) ==
    IF exc = "SystemExit" THEN "main_300"
    ELSE IF exc = "KeyboardInterrupt" THEN "main_303"
    ELSE IF exc \in OSErrors THEN "main_308"
    ELSE "main_310"

\* An exception that leaves the running function: the frames of s are popped
\* until one resumes inside a try whose except clause matches.  "loop_240" is
\* the call of connect inside the try of lines 238-244 (except Exception);
\* "main_298" is the call of loop inside the try of lines 297-311.  A thread
\* whose stack has no such frame ends with the exception uncaught.
RECURSIVE Unwind(_, _)
Unwind(s, exc) ==
    IF s = <<>> THEN [pc |-> "uncaught", stk |-> <<>>]
    ELSE IF Top(s) = "loop_240" /\ exc \in Errors
    THEN [pc |-> "loop_242", stk |-> Pop(s)]
    ELSE IF Top(s) = "main_298"
    THEN [pc |-> MainHandler(exc), stk |-> Pop(s)]
    ELSE Unwind(Pop(s), exc)

Goto(t, l) ==
    /\ pc' = [pc EXCEPT ![t] = l]
    /\ rv' = [rv EXCEPT ![t] = FALSE]
    /\ UNCHANGED stk

Call(t, target, rets) ==
    /\ pc' = [pc EXCEPT ![t] = target]
    /\ stk' = [stk EXCEPT ![t] = @ \o rets]
    /\ rv' = [rv EXCEPT ![t] = FALSE]

Return(t, v) ==
    /\ pc' = [pc EXCEPT ![t] = Top(stk[t])]
    /\ stk' = [stk EXCEPT ![t] = Pop(@)]
    /\ rv' = [rv EXCEPT ![t] = v]

Raise(t, exc) ==
    /\ pc' = [pc EXCEPT ![t] = Unwind(stk[t], exc).pc]
    /\ stk' = [stk EXCEPT ![t] = Unwind(stk[t], exc).stk]
    /\ rv' = [rv EXCEPT ![t] = FALSE]

\* ------------------------------------------------------------ the session
\* CPython closes a socket object's descriptor when the last reference to the
\* object goes away; self.sock is the only lasting reference to it, so storing
\* another value into self.sock finalizes the object it held.
Finalize(s, set) == set \ {s}

\* is_connected, line 186, left operand: self.sock is not None
is_connected_186(t) ==
    /\ pc[t] = "is_connected_186"
    /\ IF sock = NoSock THEN Return(t, FALSE)
       ELSE Goto(t, "is_connected_186f")
    /\ UNCHANGED <<session, locals, env>>

\* is_connected, line 186, right operand: self.sock.fileno() >= 0; self.sock is
\* loaded again, and a closed socket's fileno() is -1
is_connected_186f(t) ==
    /\ pc[t] = "is_connected_186f"
    /\ IF sock = NoSock THEN Raise(t, "AttributeError")
       ELSE Return(t, sock \in fds)
    /\ UNCHANGED <<session, locals, env>>

\* send, lines 148-149: if not self.is_connected(): return
send_149(t) ==
    /\ pc[t] = "send_149"
    /\ IF rv[t] THEN Goto(t, "send_152") ELSE Return(t, FALSE)
    /\ UNCHANGED <<session, locals, env>>

\* The texts send is called with: "ping" by ping (line 118), "help" + "\n" by
\* loop through command (lines 248, 142), and a line typed by the user + "\n"
\* (lines 260, 264, 142).
PING == <<"p", "i", "n", "g">>
HELP == <<"h", "e", "l", "p", "\n">>
Commands == { <<"a", "r", "m">> }

\* the data argument of the send thread t is in, by the call it returns to
SendArgs(t) ==
    IF Top(stk[t]) = "ping_120" THEN {PING}
    ELSE IF Top(stk[t]) = "loop_250" THEN {HELP}
    ELSE {cmd \o <<"\n">> : cmd \in Commands}

\* line 152 on a system where a write to a connection the peer has closed is
\* accepted every time
send_152_NoReset(t) ==
    /\ pc[t] = "send_152"
    /\ \/ /\ sock # NoSock /\ sock \in fds /\ sock \notin rst
          /\ \E m \in SendArgs(t) : sent' = sent \cup {<<sock, m>>}
          /\ rst' = rst
          /\ Return(t, FALSE)
       \/ /\ Goto(t, "send_155")
          /\ UNCHANGED <<sent, rst>>
    /\ UNCHANGED <<sock, fds, nconn, ponged, recieved, last_ping, state, eof,
                   locals, env>>

\* send, lines 151-154: self.sock.send(...) inside try; any Exception (None
\* has no send, a closed descriptor, a reset by the peer) is logged.  The
\* first write to a connection the peer has closed is still accepted by the
\* system and answered with a reset; every later one raises.
send_152(t) ==
    /\ pc[t] = "send_152"
    /\ \/ /\ sock # NoSock /\ sock \in fds /\ sock \notin rst
          /\ \E m \in SendArgs(t) : sent' = sent \cup {<<sock, m>>}
          /\ rst' = IF sock \in eof THEN rst \cup {sock} ELSE rst
          /\ Return(t, FALSE)
       \/ /\ Goto(t, "send_155")
          /\ UNCHANGED <<sent, rst>>
    /\ UNCHANGED <<sock, fds, nconn, ponged, recieved, last_ping, state, eof,
                   locals, env>>

\* send, line 155: self.close() in the except clause
send_155(t) ==
    /\ pc[t] = "send_155"
    /\ Call(t, "close_181", <<"send_155r">>)
    /\ UNCHANGED <<session, locals, env>>

send_155r(t) ==
    /\ pc[t] = "send_155r"
    /\ Return(t, FALSE)
    /\ UNCHANGED <<session, locals, env>>

\* close, line 181: if self.sock is not None
close_181(t) ==
    /\ pc[t] = "close_181"
    /\ IF sock # NoSock THEN Goto(t, "close_182") ELSE Return(t, FALSE)
    /\ UNCHANGED <<session, locals, env>>

\* close, line 182: self.sock.close(); self.sock is loaded again
close_182(t) ==
    /\ pc[t] = "close_182"
    /\ IF sock = NoSock
       THEN Raise(t, "AttributeError") /\ UNCHANGED fds
       ELSE Goto(t, "close_183") /\ fds' = fds \ {sock}
    /\ UNCHANGED <<sock, nconn, ponged, recieved, last_ping, state, wire, locals, env>>

\* close, line 183: self.sock = None
close_183(t) ==
    /\ pc[t] = "close_183"
    /\ sock' = NoSock
    /\ fds' = Finalize(sock, fds)
    /\ ponged' = Finalize(sock, ponged)
    /\ eof' = Finalize(sock, eof)
    /\ rst' = Finalize(sock, rst)
    /\ sent' = {w \in sent : w[1] # sock}
    /\ Return(t, FALSE)
    /\ UNCHANGED <<nconn, recieved, last_ping, state, locals, env>>

\* ------------------------------------------------------------- Pod.ping
\* line 118: self.send("ping"); send begins by calling is_connected
ping_118 ==
    /\ pc["hb"] = "ping_118"
    /\ Call("hb", "is_connected_186", <<"ping_120", "send_149">>)
    /\ UNCHANGED <<session, locals, env>>

\* line 120: timed_out = (datetime.now() - self.last_ping > PING_TIMEOUT)
TimedOut == now - last_ping > PING_TIMEOUT

\* line 120, then the call of is_connected that begins line 121
ping_120 ==
    /\ pc["hb"] = "ping_120"
    /\ timed_out' = TimedOut
    /\ Call("hb", "is_connected_186", <<"ping_121">>)
    /\ UNCHANGED <<session, ready, data, env>>

\* line 121 without its third operand: a timeout before any reply
TimeoutCond_IgnoresCount == rv["hb"] /\ timed_out

\* line 121: self.is_connected() and timed_out and self.recieved > 0
TimeoutCond == rv["hb"] /\ timed_out /\ recieved > 0

ping_121 ==
    /\ pc["hb"] = "ping_121"
    /\ IF TimeoutCond
       THEN Goto("hb", "ping_122") /\ UNCHANGED timed_out
       ELSE Return("hb", FALSE) /\ timed_out' = FALSE
    /\ UNCHANGED <<session, ready, data, env>>

\* lines 122-123: print "PING TIMEOUT!", then self.close()
ping_122 ==
    /\ pc["hb"] = "ping_122"
    /\ Call("hb", "close_181", <<"ping_123r">>)
    /\ UNCHANGED <<session, locals, env>>

ping_123r ==
    /\ pc["hb"] = "ping_123r"
    /\ Return("hb", FALSE)
    /\ timed_out' = FALSE
    /\ UNCHANGED <<session, ready, data, env>>

\* ----------------------------------------------------------------- Heart
\* line 196: self.running = True
start_196 ==
    /\ pc["hb"] = "start_196"
    /\ running' = TRUE
    /\ Goto("hb", "start_197")
    /\ UNCHANGED <<session, locals, now, intr, terminal>>

\* lines 197-198: while self.running: self.callback(self)
start_197 ==
    /\ pc["hb"] = "start_197"
    /\ IF running THEN Call("hb", "ping_118", <<"start_199">>)
       ELSE Goto("hb", "done")
    /\ UNCHANGED <<session, locals, env>>

\* line 199: time.sleep(self.interval)
start_199 ==
    /\ pc["hb"] = "start_199"
    /\ Goto("hb", "start_197")
    /\ UNCHANGED <<session, locals, env>>

\* ----------------------------------------------------------- Pod.connect
\* line 169: self.sock = socket.create_connection(self.addr, 1), which raises
\* (refused, timed out) or returns a new socket object
connect_169 ==
    /\ pc["main"] = "connect_169"
    /\ \/ /\ nconn < MaxConn
          /\ nconn' = nconn + 1
          /\ sock' = nconn + 1
          /\ fds' = Finalize(sock, fds) \cup {nconn + 1}
          /\ ponged' = Finalize(sock, ponged)
          /\ eof' = Finalize(sock, eof)
          /\ rst' = Finalize(sock, rst)
          /\ sent' = {w \in sent : w[1] # sock}
          /\ Goto("main", "connect_171")
       \/ /\ Goto("main", "connect_177")
          /\ UNCHANGED <<sock, fds, nconn, ponged, wire>>
    /\ UNCHANGED <<recieved, last_ping, state, locals, env>>

\* lines 171 and 172: self.sock.setsockopt(...); self.sock is loaded again, and
\* the call raises on None, on a closed descriptor, or as the system decides
Setsockopt(here, next) ==
    /\ pc["main"] = here
    /\ \/ sock # NoSock /\ sock \in fds /\ Goto("main", next)
       \/ Goto("main", "connect_177")
    /\ UNCHANGED <<session, locals, env>>

connect_171 == Setsockopt("connect_171", "connect_172")

connect_172 == Setsockopt("connect_172", "connect_174")

\* line 174: self.recieved = 0
connect_174 ==
    /\ pc["main"] = "connect_174"
    /\ recieved' = 0
    /\ Goto("main", "connect_175")
    /\ UNCHANGED <<sock, fds, nconn, ponged, last_ping, state, wire, locals, env>>

\* line 175: self.last_ping = datetime.now()
connect_175 ==
    /\ pc["main"] = "connect_175"
    /\ last_ping' = now
    /\ Return("main", FALSE)
    /\ UNCHANGED <<sock, fds, nconn, ponged, recieved, state, wire, locals, env>>

\* line 177 left out: the except clause re-raises without closing
connect_177_NoClose ==
    /\ pc["main"] = "connect_177"
    /\ Goto("main", "connect_178")
    /\ UNCHANGED <<session, locals, env>>

\* line 177: self.close() in the except clause
connect_177 ==
    /\ pc["main"] = "connect_177"
    /\ Call("main", "close_181", <<"connect_178">>)
    /\ UNCHANGED <<session, locals, env>>

\* line 178: raise e
connect_178 ==
    /\ pc["main"] = "connect_178"
    /\ Raise("main", "OSError")
    /\ UNCHANGED <<session, locals, env>>

\* -------------------------------------------------------------- Pod.recv
\* What one read of the socket can return: a liveness reply, two replies that
\* arrived together, other text, and the empty text of a connection the peer
\* has closed.
WirePayloads ==
    { <<"P", "O", "N", "G", ":", "6">>,
      <<"P", "O", "N", "G", ":", "6", "P", "O", "N", "G", ":", "6">>,
      <<"o", "k", "\n">>,
      <<>> }

\* lines 158-159: if not self.is_connected(): return
recv_159 ==
    /\ pc["main"] = "recv_159"
    /\ IF rv["main"] THEN Goto("main", "recv_162") /\ UNCHANGED data
       ELSE Return("main", FALSE) /\ data' = None
    /\ UNCHANGED <<session, timed_out, ready, env>>

\* lines 161-164: return self.sock.recv(MAX_MESSAGE_SIZE).decode('utf-8')
\* inside try; any Exception is logged.  A connection the peer has closed
\* reads as the empty text, one it has reset raises.
recv_162 ==
    /\ pc["main"] = "recv_162"
    /\ \/ /\ sock # NoSock /\ sock \in fds /\ sock \notin rst
          /\ \E p \in WirePayloads :
                /\ p = <<>> <=> sock \in eof
                /\ Contains(p, PONG) => recieved < MaxRecv
                /\ data' = Some(p)
                /\ ponged' = IF Contains(p, PONG) THEN ponged \cup {sock}
                             ELSE ponged
          /\ Return("main", FALSE)
       \/ /\ Goto("main", "recv_165")
          /\ UNCHANGED <<data, ponged>>
    /\ UNCHANGED <<sock, fds, nconn, recieved, last_ping, state, wire,
                   timed_out, ready, env>>

\* line 165: self.close() in the except clause
recv_165 ==
    /\ pc["main"] = "recv_165"
    /\ Call("main", "close_181", <<"recv_165r">>)
    /\ UNCHANGED <<session, locals, env>>

recv_165r ==
    /\ pc["main"] = "recv_165r"
    /\ Return("main", FALSE)
    /\ data' = None
    /\ UNCHANGED <<session, timed_out, ready, env>>

\* ------------------------------------------------------- Pod.handle_data
\* PodState.__init__, lines 83-84, on data.split(":")[1] of line 129:
\* [ok |-> FALSE] where the subscript raises IndexError or int raises ValueError
PodState(text) ==
    LET pieces == Split(text, ":")
    IN  IF Len(pieces) < 2 THEN [ok |-> FALSE, val |-> 0, exc |-> "IndexError"]
        ELSE IF ~ParseInt(pieces[2]).ok
        THEN [ok |-> FALSE, val |-> 0, exc |-> "ValueError"]
        ELSE [ok |-> TRUE, val |-> ParseInt(pieces[2]).val, exc |-> "none"]

\* line 130 comparing the PodState objects, which are never the same object
StateDiffers_ByIdentity(new) == state = None \/ new \in Int

\* line 130: self.state is None or state._state != self.state._state
StateDiffers(new) == state = None \/ new # state[1]

\* lines 126-127: if "PONG" in data: self.last_ping = datetime.now()
\* lines 137, 139: else sys.stdout.write(data); return "PONG" not in data
handle_data_126 ==
    /\ pc["main"] = "handle_data_126"
    /\ IF Contains(data[1], PONG)
       THEN last_ping' = now /\ Goto("main", "handle_data_128")
       ELSE UNCHANGED last_ping /\ Return("main", TRUE)
    /\ UNCHANGED <<sock, fds, nconn, ponged, recieved, state, wire, locals, env>>

\* line 128: self.recieved += 1
handle_data_128 ==
    /\ pc["main"] = "handle_data_128"
    /\ recieved' = recieved + 1
    /\ Goto("main", "handle_data_129")
    /\ UNCHANGED <<sock, fds, nconn, ponged, last_ping, state, wire, locals, env>>

\* lines 129-130: state = PodState(data.split(":")[1]), then the comparison
handle_data_129 ==
    /\ pc["main"] = "handle_data_129"
    /\ IF ~PodState(data[1]).ok THEN Raise("main", PodState(data[1]).exc)
       ELSE IF StateDiffers(PodState(data[1]).val)
       THEN Goto("main", "handle_data_131")
       ELSE Goto("main", "handle_data_135")
    /\ UNCHANGED <<session, locals, env>>

\* lines 131-134: "\r", self.state = state, user_write(make_prompt(self))
handle_data_131 ==
    /\ pc["main"] = "handle_data_131"
    /\ state' = Some(PodState(data[1]).val)
    /\ Goto("main", "handle_data_135")
    /\ UNCHANGED <<sock, fds, nconn, ponged, recieved, last_ping, wire, locals, env>>

\* lines 135, 139: self.state = state; return "PONG" not in data
handle_data_135 ==
    /\ pc["main"] = "handle_data_135"
    /\ state' = Some(PodState(data[1]).val)
    /\ Return("main", FALSE)
    /\ UNCHANGED <<sock, fds, nconn, ponged, recieved, last_ping, wire, locals, env>>

\* ------------------------------------------------------------------ loop
NotReady == [sock |-> NoSock, stdin |-> FALSE]

\* line 235: user_write(make_prompt(pod)); then the first test of line 237
loop_235 ==
    /\ pc["main"] = "loop_235"
    /\ Call("main", "is_connected_186", <<"loop_237">>)
    /\ UNCHANGED <<session, locals, env>>

\* lines 237-240: while not pod.is_connected(): try: pod.connect()
loop_237 ==
    /\ pc["main"] = "loop_237"
    /\ IF rv["main"] THEN Goto("main", "loop_248")
       ELSE Call("main", "connect_169", <<"loop_240">>)
    /\ UNCHANGED <<session, locals, env>>

\* line 240: connect returned without raising
loop_240 ==
    /\ pc["main"] = "loop_240"
    /\ Goto("main", "loop_245")
    /\ UNCHANGED <<session, locals, env>>

\* lines 241-244: except Exception as e: the prompt is redrawn with the error
loop_242 ==
    /\ pc["main"] = "loop_242"
    /\ Goto("main", "loop_245")
    /\ UNCHANGED <<session, locals, env>>

\* line 245: time.sleep(1); then the next test of line 237
loop_245 ==
    /\ pc["main"] = "loop_245"
    /\ Call("main", "is_connected_186", <<"loop_237">>)
    /\ UNCHANGED <<session, locals, env>>

\* line 248: pod.command("help"), which is send("help\n")
loop_248 ==
    /\ pc["main"] = "loop_248"
    /\ Call("main", "is_connected_186", <<"loop_250", "send_149">>)
    /\ UNCHANGED <<session, locals, env>>

\* line 250: while pod.is_connected()
loop_250 ==
    /\ pc["main"] = "loop_250"
    /\ Call("main", "is_connected_186", <<"loop_250r">>)
    /\ UNCHANGED <<session, locals, env>>

loop_250r ==
    /\ pc["main"] = "loop_250r"
    /\ IF rv["main"] THEN Goto("main", "loop_251") ELSE Return("main", FALSE)
    /\ UNCHANGED <<session, locals, env>>

\* line 251: the list [pod.sock, sys.stdin] is built; pod.sock is loaded once
loop_251 ==
    /\ pc["main"] = "loop_251"
    /\ ready' = [sock |-> sock, stdin |-> FALSE]
    /\ Goto("main", "loop_251s")
    /\ UNCHANGED <<session, timed_out, data, env>>

\* line 251: select.select(...) on that list.  None has no fileno (TypeError);
\* a socket closed before the call has fileno -1 (ValueError), one closed
\* under the call a bad descriptor (OSError); else the ready objects return
loop_251s ==
    /\ pc["main"] = "loop_251s"
    /\ IF ready.sock = NoSock THEN Raise("main", "TypeError") /\ UNCHANGED ready
       ELSE IF ready.sock \notin fds
       THEN \E e \in {"ValueError", "OSError"} :
                Raise("main", e) /\ UNCHANGED ready
       ELSE \E r \in {NoSock, ready.sock}, i \in BOOLEAN :
                /\ ready' = [sock |-> r, stdin |-> i]
                /\ Goto("main", "loop_253")
    /\ UNCHANGED <<session, timed_out, data, env>>

\* lines 253-254: if pod.sock in ready: data = pod.recv()
loop_253 ==
    /\ pc["main"] = "loop_253"
    /\ IF sock # NoSock /\ sock = ready.sock
       THEN Call("main", "is_connected_186", <<"loop_255", "recv_159">>)
       ELSE Goto("main", "loop_258")
    /\ UNCHANGED <<session, locals, env>>

\* line 255: if data and pod.handle_data(data)
loop_255 ==
    /\ pc["main"] = "loop_255"
    /\ IF data # None /\ data[1] # <<>>
       THEN Call("main", "handle_data_126", <<"loop_255r">>)
       ELSE Goto("main", "loop_258")
    /\ UNCHANGED <<session, locals, env>>

loop_255r ==
    /\ pc["main"] = "loop_255r"
    /\ IF rv["main"] THEN Goto("main", "loop_256") ELSE Goto("main", "loop_258")
    /\ UNCHANGED <<session, locals, env>>

\* line 256: user_write(make_prompt(pod))
loop_256 ==
    /\ pc["main"] = "loop_256"
    /\ Goto("main", "loop_258")
    /\ UNCHANGED <<session, locals, env>>

\* lines 258-264: if sys.stdin in ready: input() raises EOFError, answered by
\* sys.exit(0), or returns a line, which pod.command sends
loop_258 ==
    /\ pc["main"] = "loop_258"
    /\ IF ready.stdin
       THEN \/ Raise("main", "SystemExit")
            \/ Call("main", "is_connected_186", <<"loop_264", "send_149">>)
       ELSE Goto("main", "loop_250")
    /\ ready' = NotReady
    /\ data' = None
    /\ UNCHANGED <<session, timed_out, env>>

\* line 264: pod.command(cmd) returned; the while of line 250 repeats
loop_264 ==
    /\ pc["main"] = "loop_264"
    /\ Goto("main", "loop_250")
    /\ UNCHANGED <<session, locals, env>>

\* ------------------------------------------------------------------ main
\* line 296-298: while True: try: loop(pod)
main_297 ==
    /\ pc["main"] = "main_297"
    /\ Call("main", "loop_235", <<"main_298">>)
    /\ UNCHANGED <<session, locals, env>>

\* line 298: loop returned; the try is left and the while repeats
main_298 ==
    /\ pc["main"] = "main_298"
    /\ Goto("main", "main_297")
    /\ UNCHANGED <<session, locals, env>>

\* Heart.stop, line 202: self.running = False
stop == running' = FALSE

\* lines 299-300: except SystemExit: heart.stop()
main_300 ==
    /\ pc["main"] = "main_300"
    /\ stop
    /\ Goto("main", "main_301")
    /\ ready' = NotReady /\ data' = None
    /\ UNCHANGED <<session, timed_out, now, intr, terminal>>

\* line 301: raise; the SystemExit of sys.exit(0) ends the main thread
main_301 ==
    /\ pc["main"] = "main_301"
    /\ Goto("main", "exit_0")
    /\ UNCHANGED <<session, locals, env>>

\* lines 302-304: except KeyboardInterrupt: print(...); heart.stop()
main_303 ==
    /\ pc["main"] = "main_303"
    /\ stop
    /\ Goto("main", "main_305")
    /\ ready' = NotReady /\ data' = None
    /\ UNCHANGED <<session, timed_out, now, intr, terminal>>

\* line 305: sys.exit(1)
main_305 ==
    /\ pc["main"] = "main_305"
    /\ Goto("main", "exit_1")
    /\ UNCHANGED <<session, locals, env>>

\* lines 307-308: except IOError as e: print
main_308 ==
    /\ pc["main"] = "main_308"
    /\ Goto("main", "main_297")
    /\ ready' = NotReady /\ data' = None
    /\ UNCHANGED <<session, timed_out, env>>

\* lines 309-311 ending in a bare raise: the error leaves main()
main_310_Reraise ==
    /\ pc["main"] = "main_310"
    /\ Goto("main", "uncaught")
    /\ ready' = NotReady /\ data' = None
    /\ UNCHANGED <<session, timed_out, env>>

\* lines 309-311: except Exception as e: print; traceback.print_exc()
main_310 ==
    /\ pc["main"] = "main_310"
    /\ Goto("main", "main_297")
    /\ ready' = NotReady /\ data' = None
    /\ UNCHANGED <<session, timed_out, env>>

\* ----------------------------------------------------------- environment
MainEnded == {"exit_0", "exit_1", "uncaught"}
HbEnded == {"done", "uncaught"}

\* SIGINT: Python raises KeyboardInterrupt in the main thread between any two
\* bytecodes, wherever the thread is
Interrupt ==
    /\ pc["main"] \notin MainEnded
    /\ intr < MaxIntr
    /\ intr' = intr + 1
    /\ Raise("main", "KeyboardInterrupt")
    /\ UNCHANGED <<session, locals, running, now, terminal>>

\* The remote endpoint closes the connection of the socket in use.
PeerClose ==
    /\ sock # NoSock /\ sock \in fds /\ sock \notin eof
    /\ eof' = eof \cup {sock}
    /\ UNCHANGED <<pc, stk, rv, sock, fds, nconn, ponged, recieved, last_ping,
                   state, sent, rst, locals, env>>

Tick ==
    /\ now < MaxTime
    /\ now' = now + 1
    /\ UNCHANGED <<pc, stk, rv, session, locals, running, intr, terminal>>

\* --------------------------------------------------------- specification
\* After main() line 294: Pod(...) and Heart(...) are constructed and the
\* heartbeat thread is started; neither thread has taken a step.
Init ==
    /\ pc = [t \in Threads |-> IF t = "hb" THEN "start_196" ELSE "main_297"]
    /\ stk = [t \in Threads |-> <<>>]
    /\ rv = [t \in Threads |-> FALSE]
    /\ sock = NoSock
    /\ fds = {}
    /\ nconn = 0
    /\ ponged = {}
    /\ recieved = 0
    /\ last_ping = 0
    /\ state = None
    /\ running = FALSE
    /\ timed_out = FALSE
    /\ ready = NotReady
    /\ data = None
    /\ now = 0
    /\ intr = 0
    /\ sent = {}
    /\ eof = {}
    /\ rst = {}
    /\ LAST_PROMPT = <<>>
    /\ PROMPT_TRACK = 0

SessionStep(t) ==
    \/ is_connected_186(t) \/ is_connected_186f(t)
    \/ send_149(t) \/ send_152(t) \/ send_155(t) \/ send_155r(t)
    \/ close_181(t) \/ close_182(t) \/ close_183(t)

PingStep == ping_118 \/ ping_120 \/ ping_121 \/ ping_122 \/ ping_123r

HeartStep == start_196 \/ start_197 \/ start_199

ConnectStep ==
    \/ connect_169 \/ connect_171 \/ connect_172 \/ connect_174
    \/ connect_175 \/ connect_177 \/ connect_178

RecvStep == recv_159 \/ recv_162 \/ recv_165 \/ recv_165r

HandleStep ==
    \/ handle_data_126 \/ handle_data_128 \/ handle_data_129
    \/ handle_data_131 \/ handle_data_135

LoopStep ==
    \/ loop_235 \/ loop_237 \/ loop_240 \/ loop_242 \/ loop_245 \/ loop_248
    \/ loop_250 \/ loop_250r \/ loop_251 \/ loop_251s \/ loop_253
    \/ loop_255 \/ loop_255r \/ loop_256 \/ loop_258 \/ loop_264

MainStep ==
    \/ main_297 \/ main_298 \/ main_300 \/ main_301 \/ main_303
    \/ main_305 \/ main_308 \/ main_310

Next ==
    \/ \E t \in Threads : SessionStep(t)
    \/ PingStep \/ HeartStep
    \/ ConnectStep \/ RecvStep \/ HandleStep \/ LoopStep \/ MainStep
    \/ Interrupt \/ PeerClose \/ Tick

Spec == Init /\ [][Next]_vars

\* ------------------------------------------------------------- PodState
\* PodStateType.MAP, lines 42-57: <<name, ordinal>>
MAP ==
    { <<<<"P", "O", "S", "T">>, 0>>,
      <<<<"B", "O", "O", "T">>, 1>>,
      <<<<"L", "P", "F", "I", "L", "L">>, 2>>,
      <<<<"H", "P", "F", "I", "L", "L">>, 3>>,
      <<<<"L", "O", "A", "D">>, 4>>,
      <<<<"S", "T", "A", "N", "D", "B", "Y">>, 5>>,
      <<<<"A", "R", "M", "E", "D">>, 6>>,
      <<<<"P", "U", "S", "H", "I", "N", "G">>, 7>>,
      <<<<"C", "O", "A", "S", "T", "I", "N", "G">>, 8>>,
      <<<<"B", "R", "A", "K", "I", "N", "G">>, 9>>,
      <<<<"V", "E", "N", "T">>, 10>>,
      <<<<"R", "E", "T", "R", "I", "E", "V", "A", "L">>, 11>>,
      <<<<"E", "M", "E", "R", "G", "E", "N", "C", "Y">>, 12>>,
      <<<<"S", "H", "U", "T", "D", "O", "W", "N">>, 13>> }

\* ------------------------------------------- Pod.ping called on its own
\* ping(now) on a session in any quiescent state: disconnected, or connected
\* with any reply count and any age of the last reply.  Only the calling
\* thread runs, and the clock stands still during the call.
InitPing ==
    /\ pc = [t \in Threads |-> IF t = "hb" THEN "ping_118" ELSE "main_297"]
    /\ stk = [t \in Threads |-> IF t = "hb" THEN <<"start_199">> ELSE <<>>]
    /\ rv = [t \in Threads |-> FALSE]
    /\ sock \in {NoSock, 1}
    /\ fds = {sock} \ {NoSock}
    /\ nconn = Cardinality(fds)
    /\ recieved \in 0..MaxRecv
    /\ ponged = IF recieved > 0 THEN fds ELSE {}
    /\ last_ping \in 0..MaxTime
    /\ now \in last_ping..MaxTime
    /\ state \in {None, Some(6)}
    /\ running = TRUE
    /\ timed_out = FALSE
    /\ ready = NotReady
    /\ data = None
    /\ intr = 0
    /\ sent = {}
    /\ eof = {}
    /\ rst = {}
    /\ LAST_PROMPT = <<>>
    /\ PROMPT_TRACK = 0

NextPing == SessionStep("hb") \/ PingStep

SpecPing == InitPing /\ [][NextPing]_vars

\* ------------------------------------- Pod.handle_data called on its own
HandlePayloads ==
    { <<"P", "O", "N", "G", ":", "6">>,
      <<"P", "O", "N", "G", ":", "1", "2">>,
      <<"P", "O", "N", "G", ":", "6", "\n">>,
      <<"P", "O", "N", "G", ":", "9", "9">>,
      <<"P", "O", "N", "G", ":", "A", "R", "M", "E", "D">>,
      <<"P", "O", "N", "G">>,
      <<"o", "k", "\n">> }

\* handle_data(data) as loop calls it at line 255, on a connected session with
\* any known state, reply count and age of the last reply.
InitHandle ==
    /\ pc = [t \in Threads |-> IF t = "hb" THEN "start_199"
                                ELSE "handle_data_126"]
    /\ stk = [t \in Threads |-> IF t = "hb" THEN <<>>
                                 ELSE <<"main_298", "loop_255r">>]
    /\ rv = [t \in Threads |-> FALSE]
    /\ sock = 1
    /\ fds = {1}
    /\ nconn = 1
    /\ recieved \in 0..MaxRecv
    /\ ponged = IF recieved > 0 THEN fds ELSE {}
    /\ last_ping \in 0..MaxTime
    /\ now \in last_ping..MaxTime
    /\ state \in {None, Some(6), Some(12)}
    /\ running = TRUE
    /\ timed_out = FALSE
    /\ ready = [sock |-> 1, stdin |-> FALSE]
    /\ data \in {Some(p) : p \in HandlePayloads}
    /\ intr = 0
    /\ sent = {}
    /\ eof = {}
    /\ rst = {}
    /\ LAST_PROMPT = <<>>
    /\ PROMPT_TRACK = 0

NextHandle == HandleStep \/ loop_255r \/ loop_256

SpecHandle == InitHandle /\ [][NextHandle]_vars

\* ------------------------------------------------- PodState's methods
\* PodStateType.SHORT_MAP, lines 59-74: <<code, ordinal>>
SHORT_MAP ==
    { <<<<"P", "O", "S", "T">>, 0>>,
      <<<<"B", "O", "O", "T">>, 1>>,
      <<<<"L", "P", "F", "L">>, 2>>,
      <<<<"H", "P", "F", "L">>, 3>>,
      <<<<"L", "O", "A", "D">>, 4>>,
      <<<<"S", "T", "B", "Y">>, 5>>,
      <<<<"A", "R", "M", "D">>, 6>>,
      <<<<"P", "U", "S", "H">>, 7>>,
      <<<<"C", "O", "A", "S">>, 8>>,
      <<<<"B", "R", "K", "E">>, 9>>,
      <<<<"V", "E", "N", "T">>, 10>>,
      <<<<"R", "E", "T", "R">>, 11>>,
      <<<<"E", "M", "R", "G">>, 12>>,
      <<<<"S", "D", "W", "N">>, 13>> }

\* PodStateType.__getattr__, lines 76-79: PodState.NAME is MAP[NAME]
getattr(name) == (CHOOSE m \in MAP : m[1] = name)[2]

\* is_fault, lines 86-87, of the PodState whose _state is s
is_fault(s) == s = getattr(<<"E", "M", "E", "R", "G", "E", "N", "C", "Y">>)

\* is_moving without COASTING in the tuple of lines 90-91
is_moving_NoCoasting(s) ==
    s \in { getattr(<<"B", "R", "A", "K", "I", "N", "G">>),
            getattr(<<"P", "U", "S", "H", "I", "N", "G">>) }

\* is_moving, lines 89-91
is_moving(s) ==
    s \in { getattr(<<"B", "R", "A", "K", "I", "N", "G">>),
            getattr(<<"C", "O", "A", "S", "T", "I", "N", "G">>),
            getattr(<<"P", "U", "S", "H", "I", "N", "G">>) }

\* the keys of map whose value is s, and keys[0] or the default (lines 94-98
\* and 101-106); no two keys of either map share a value
KeyOf(map, s, default) ==
    IF \E m \in map : m[2] = s THEN (CHOOSE m \in map : m[2] = s)[1]
    ELSE default

\* short() looking its key up in MAP instead of SHORT_MAP
short_FromMAP(s) == KeyOf(MAP, s, <<"-", "-", "-", "-">>)

\* __str__, lines 93-98
str(s) == KeyOf(MAP, s, <<"U", "N", "K", "N", "O", "W", "N">>)

\* short, lines 100-106
short(s) == KeyOf(SHORT_MAP, s, <<"-", "-", "-", "-">>)

\* ------------------------------------------------------------ the prompt
\* The Ansi class is imported from the module ansi, which is not part of the
\* source at hand: it is modelled as the specification describes it, a
\* highlight that wraps the text in markup and a strip that removes markup,
\* with the usual SGR sequences ESC [ n m.  "ESC" stands for the one
\* character \x1b.
ESC == "ESC"
Sgr(code) == <<ESC, "[">> \o code \o <<"m">>
make_bold(t) == Sgr(<<"1">>) \o t \o Sgr(<<"0">>)
make_red(t) == Sgr(<<"3", "1">>) \o t \o Sgr(<<"0">>)
make_green(t) == Sgr(<<"3", "2">>) \o t \o Sgr(<<"0">>)
make_yellow(t) == Sgr(<<"3", "3">>) \o t \o Sgr(<<"0">>)

\* Ansi.strip: the text without its markup
RECURSIVE AnsiStrip(_)
AnsiStrip(t) ==
    IF t = <<>> THEN t
    ELSE IF t[1] # ESC THEN <<t[1]>> \o AnsiStrip(Tail(t))
    ELSE IF \A i \in 1..Len(t) : t[i] # "m" THEN <<>>
    ELSE LET k == CHOOSE i \in 1..Len(t) :
                      t[i] = "m" /\ \A j \in 1..(i - 1) : t[j] # "m"
         IN  AnsiStrip(SubSeq(t, k + 1, Len(t)))

\* t.rstrip()
RECURSIVE Rstrip(_)
Rstrip(t) ==
    IF t # <<>> /\ t[Len(t)] \in Whitespace
    THEN Rstrip(SubSeq(t, 1, Len(t) - 1))
    ELSE t

\* c * n for a one-character text c
Times(c, n) == [i \in 1..n |-> c]

\* "%d" % n for n >= 0
RECURSIVE FormatInt(_)
FormatInt(n) ==
    LET d == CHOOSE c \in Digits : DigitVal(c) = n % 10
    IN  IF n < 10 THEN <<d>> ELSE FormatInt(n \div 10) \o <<d>>

\* pod.addr, line 290: (args.host, args.port)
addr == [host |-> <<"p", "o", "d">>, port |-> 7]

\* progress, lines 35-38, from PROMPT_TRACK = track: the new PROMPT_TRACK and
\* the returned walker
progress(track) ==
    LET t == (track + 1) % 5
    IN  [PROMPT_TRACK |-> t, walker |-> Times(".", t) \o Times(" ", 4 - t)]

\* make_prompt(pod, extra), lines 210-231, with pod.state = st (None or
\* Some(ordinal)), LAST_PROMPT = last and PROMPT_TRACK = track: the returned
\* text and the new values of the two globals
make_prompt(last, track, st, extra) ==
    LET base == addr.host \o <<":">> \o FormatInt(addr.port)
        details ==
            IF st # None
            THEN IF is_fault(st[1])
                 THEN make_red(base \o <<" ">> \o short(st[1]))
                 ELSE make_green(base \o <<" ">> \o short(st[1]))
            ELSE make_yellow(base \o <<" ">> \o progress(track).walker)
        line == make_bold(<<"P", "o", "d", "(">> \o details \o <<")">> \o extra)
        raw == AnsiStrip(line)
        text == IF Len(AnsiStrip(last)) > Len(raw)
                THEN line \o Times(" ", Len(last) - Len(raw))
                ELSE line
    IN  [text |-> text,
         LAST_PROMPT |-> Rstrip(text),
         PROMPT_TRACK |-> IF st # None THEN track
                          ELSE progress(track).PROMPT_TRACK]

\* the extra argument: the default of line 210, and " ! %s " % e of line 244
Extras ==
    { <<">", " ">>,
      <<" ", "!", " ", "t", "i", "m", "e", "d", " ", "o", "u", "t", " ">> }

\* the states pod.state takes in the calls checked: none, ARMED, EMERGENCY
\* and an ordinal that is not a stage
PromptStates == {None, Some(6), Some(12), Some(99)}

\* what an earlier call can have left in LAST_PROMPT
Rendered ==
    {<<>>} \cup
    { make_prompt(<<>>, tr, st, e).LAST_PROMPT :
          tr \in 0..4, st \in PromptStates, e \in Extras }

\* ------------------------------------------ make_prompt called on its own
\* one call of make_prompt(pod, extra), lines 211-231
make_prompt_211 ==
    /\ pc["main"] = "make_prompt_211"
    /\ \E extra \in Extras :
          LET r == make_prompt(LAST_PROMPT, PROMPT_TRACK, state, extra)
          IN  /\ LAST_PROMPT' = r.LAST_PROMPT
              /\ PROMPT_TRACK' = r.PROMPT_TRACK
              /\ rv' = [rv EXCEPT !["main"] = r.text]
    /\ pc' = [pc EXCEPT !["main"] = "make_prompt_231"]
    /\ UNCHANGED <<stk, session, locals, running, now, intr>>

InitPrompt ==
    /\ pc = [t \in Threads |-> IF t = "hb" THEN "start_199"
                                ELSE "make_prompt_211"]
    /\ stk = [t \in Threads |-> <<>>]
    /\ rv = [t \in Threads |-> FALSE]
    /\ sock = NoSock
    /\ fds = {}
    /\ nconn = 0
    /\ ponged = {}
    /\ recieved = 0
    /\ last_ping = 0
    /\ state \in PromptStates
    /\ running = TRUE
    /\ timed_out = FALSE
    /\ ready = NotReady
    /\ data = None
    /\ now = 0
    /\ intr = 0
    /\ sent = {}
    /\ eof = {}
    /\ rst = {}
    /\ LAST_PROMPT \in Rendered
    /\ PROMPT_TRACK \in 0..4

NextPrompt == make_prompt_211

SpecPrompt == InitPrompt /\ [][NextPrompt]_vars

\* ---------------------------------------- PodState constructed on its own
\* What PodState is constructed from: the canonical names, the decimal texts
\* of the ordinals around 0..13, and texts int() accepts with a sign or blanks.
Tokens ==
    { m[1] : m \in MAP } \cup
    { FormatInt(n) : n \in 0..15 } \cup
    { <<"9", "9">>, <<"-", "1">>, <<" ", "7", "\n">>, <<"+", "8">> }

\* PodState(state), lines 83-84: self._state = int(state), or ValueError
PodState_84 ==
    /\ pc["main"] = "PodState_84"
    /\ IF ParseInt(data[1]).ok
       THEN /\ state' = Some(ParseInt(data[1]).val)
            /\ pc' = [pc EXCEPT !["main"] = "PodState_r"]
       ELSE /\ UNCHANGED state
            /\ pc' = [pc EXCEPT !["main"] = "uncaught"]
    /\ UNCHANGED <<stk, rv, sock, fds, nconn, ponged, recieved, last_ping,
                   wire, locals, env>>

\* A method of the constructed PodState is called and returns.
\* is_fault(), lines 86-87
is_fault_87 ==
    /\ pc["main"] = "PodState_r"
    /\ pc' = [pc EXCEPT !["main"] = "is_fault_r"]
    /\ rv' = [rv EXCEPT !["main"] = is_fault(state[1])]
    /\ UNCHANGED <<stk, session, locals, env>>

\* is_moving(), lines 89-91
is_moving_90 ==
    /\ pc["main"] = "PodState_r"
    /\ pc' = [pc EXCEPT !["main"] = "is_moving_r"]
    /\ rv' = [rv EXCEPT !["main"] = is_moving(state[1])]
    /\ UNCHANGED <<stk, session, locals, env>>

\* str(), lines 93-98
str_94 ==
    /\ pc["main"] = "PodState_r"
    /\ pc' = [pc EXCEPT !["main"] = "str_r"]
    /\ rv' = [rv EXCEPT !["main"] = str(state[1])]
    /\ UNCHANGED <<stk, session, locals, env>>

\* short(), lines 100-106
short_101 ==
    /\ pc["main"] = "PodState_r"
    /\ pc' = [pc EXCEPT !["main"] = "short_r"]
    /\ rv' = [rv EXCEPT !["main"] = short(state[1])]
    /\ UNCHANGED <<stk, session, locals, env>>

InitState ==
    /\ pc = [t \in Threads |-> IF t = "hb" THEN "start_199" ELSE "PodState_84"]
    /\ stk = [t \in Threads |-> <<>>]
    /\ rv = [t \in Threads |-> FALSE]
    /\ sock = NoSock
    /\ fds = {}
    /\ nconn = 0
    /\ ponged = {}
    /\ recieved = 0
    /\ last_ping = 0
    /\ state = None
    /\ running = TRUE
    /\ timed_out = FALSE
    /\ ready = NotReady
    /\ data \in {Some(t) : t \in Tokens}
    /\ now = 0
    /\ intr = 0
    /\ sent = {}
    /\ eof = {}
    /\ rst = {}
    /\ LAST_PROMPT = <<>>
    /\ PROMPT_TRACK = 0

NextState == PodState_84 \/ is_fault_87 \/ is_moving_90 \/ str_94 \/ short_101

SpecState == InitState /\ [][NextState]_vars

\* ------------------------------------------- the two threads, scheduled
\* Every step of the main thread, and every step of the heartbeat thread.
MainRun ==
    \/ SessionStep("main")
    \/ ConnectStep \/ RecvStep \/ HandleStep \/ LoopStep \/ MainStep

HbRun == SessionStep("hb") \/ PingStep \/ HeartStep

\* A thread that has not ended always has a next step: every label's action
\* has a branch for each outcome of its line.
MainRunEnabled == (ENABLED <<MainRun>>_vars) <=> pc["main"] \notin MainEnded
HbRunEnabled == (ENABLED <<HbRun>>_vars) <=> pc["hb"] \notin HbEnded

\* Both are operating-system threads, and the interpreter hands its lock over
\* every switch interval and at every blocking call (sleep, select and the
\* socket calls, each with a timeout): a thread that has not ended eventually
\* takes its next step.  This is WF_vars(MainRun) /\ WF_vars(HbRun), each
\* WF_vars(A) written out as []<>~ENABLED <<A>>_vars \/ []<><<A>>_vars with
\* ENABLED replaced by what MainRunEnabled and HbRunEnabled say it is.
Scheduled ==
    /\ []<>(pc["main"] \in MainEnded) \/ []<><<MainRun>>_vars
    /\ []<>(pc["hb"] \in HbEnded) \/ []<><<HbRun>>_vars

\* The first connection is established and the discovery command sent: the
\* main thread is at the while of line 250, and the heartbeat thread has not
\* run yet.  Either no reply has arrived yet, or one arrived MaxTime ago; the
\* peer has closed the connection or not.  The clock reading and the peer
\* stay as they are, and the threads run.
InitLive ==
    /\ pc = [t \in Threads |-> IF t = "hb" THEN "start_196" ELSE "loop_250"]
    /\ stk = [t \in Threads |-> IF t = "hb" THEN <<>> ELSE <<"main_298">>]
    /\ rv = [t \in Threads |-> FALSE]
    /\ sock = 1
    /\ fds = {1}
    /\ nconn = 1
    /\ \/ recieved = 0 /\ now = 0
       \/ recieved = MaxRecv /\ now = MaxTime
    /\ ponged = IF recieved > 0 THEN fds ELSE {}
    /\ last_ping = 0
    /\ state = IF recieved > 0 THEN Some(6) ELSE None
    /\ running = FALSE
    /\ timed_out = FALSE
    /\ ready = NotReady
    /\ data = None
    /\ intr = 0
    /\ sent = {<<1, HELP>>}
    /\ eof \in {{}, {1}}
    /\ rst = {}
    /\ LAST_PROMPT = <<>>
    /\ PROMPT_TRACK = 0

NextLive == MainRun \/ HbRun \/ Interrupt

SpecLive == InitLive /\ [][NextLive]_vars /\ Scheduled

\* the same, with the fairness as TLA+ writes it
SpecFair == InitLive /\ [][NextLive]_vars /\ WF_vars(MainRun) /\ WF_vars(HbRun)

\* ================================================================ claims
IsConnected == sock # NoSock /\ sock \in fds

ClosePCs == {"close_181", "close_182", "close_183"}
ConnectPCs == {"connect_169", "connect_171", "connect_172", "connect_174",
               "connect_175", "connect_177", "connect_178"}

\* the labels only a raised exception leads to
RaisedPCs == {"uncaught", "loop_242", "main_308", "main_310"}

\* thread t takes a step in which an error (not SIGINT, not sys.exit) leaves
\* the function it is running
Raises(t) ==
    /\ pc[t] \notin RaisedPCs
    /\ pc'[t] \in RaisedPCs
    /\ intr' = intr

\* C1 (checked under SpecPing): ping flags a timeout (reaches line 122) if and
\* only if, when it decides, the session is connected and recieved > 0 and
\* now - last_ping > PING_TIMEOUT; a flagged timeout ends with the session
\* closed, and a ping that returns without flagging leaves it as it was.
C1_PingTimeoutIff ==
    /\ [][(pc["hb"] = "ping_121" /\ pc'["hb"] # "ping_121")
            => /\ pc'["hb"] = "ping_122"
                    <=> (IsConnected /\ recieved > 0
                         /\ now - last_ping > PING_TIMEOUT)
               /\ pc'["hb"] # "ping_122"
                    => (pc'["hb"] = "start_199" /\ UNCHANGED <<sock, fds>>)]_vars
    /\ [](pc["hb"] = "ping_123r" => (sock = NoSock /\ fds = {}))
    /\ []((pc["hb"] = "start_199" /\ IsConnected)
            => ~(recieved > 0 /\ now - last_ping > PING_TIMEOUT))

\* C1 witness: connected, one reply, last reply 2 s old: the timeout is flagged
C1_Witness ==
    /\ pc["hb"] = "ping_122"
    /\ IsConnected
    /\ recieved = 1
    /\ now - last_ping = 2

\* C2: the heartbeat never closes, for timeout, a socket from which no PONG
\* has been read: the self.sock.close() of the close() called at line 123
\* only ever closes a socket that has replied.
C2_NoTimeoutBeforeReply ==
    [][(/\ pc["hb"] = "close_182"
        /\ Top(stk["hb"]) = "ping_123r"
        /\ pc'["hb"] = "close_183")
         => sock \in ponged]_vars

\* C3: close() never faults, from either thread (no self.sock.close() on a
\* handle already None), and whenever it returns the handle is None.
C3_CloseNeverFaults ==
    [][\A t \in Threads :
          /\ ~(pc[t] \in ClosePCs /\ Raises(t))
          /\ (pc[t] \in ClosePCs /\ pc'[t] \notin ClosePCs /\ intr' = intr)
                => sock' = NoSock]_vars

\* C4: the two threads are never both inside connect() or close().
InLifecycle(t) == pc[t] \in ClosePCs \cup ConnectPCs

C4_MutualExclusion == ~(InLifecycle("hb") /\ InLifecycle("main"))

\* C5: no error leaves send, recv or ping (nor any Session operation but
\* connect): a step that raises never unwinds a frame of one of them.
SessionOpPCs ==
    {"is_connected_186", "is_connected_186f", "send_149", "send_152",
     "send_155", "send_155r", "recv_159", "recv_162", "recv_165", "recv_165r",
     "ping_118", "ping_120", "ping_121", "ping_122", "ping_123r",
     "handle_data_126", "handle_data_128", "handle_data_129",
     "handle_data_131", "handle_data_135"} \cup ClosePCs

InSessionOp(t) ==
    /\ pc[t] \in SessionOpPCs \/ \E i \in 1..Len(stk[t]) : stk[t][i] \in SessionOpPCs
    /\ \A i \in 1..Len(stk[t]) : stk[t][i] \notin ConnectPCs

C5_NoErrorEscapes ==
    [][\A t \in Threads : ~(InSessionOp(t) /\ Raises(t))]_vars

\* C6: whenever connect() fails, it raises to its caller (it returns normally
\* only from line 175) and, when it raises, self.sock is None, is_connected()
\* is false and no socket descriptor is left open.
C6_ConnectFailureReleases ==
    /\ []((pc["main"] \in {"connect_178", "loop_242"})
            => (sock = NoSock /\ ~IsConnected /\ fds = {}))
    /\ [][pc'["main"] = "loop_240" => pc["main"] \in {"connect_175", "loop_240"}]_vars
    /\ [][(pc["main"] \in {"connect_177", "connect_178"} /\ pc'["main"] \notin ConnectPCs \cup ClosePCs)
            => pc'["main"] \in {"loop_242", "main_303"}]_vars

\* C6 witness: the first socket was opened, setsockopt raised, and connect is
\* about to re-raise with the socket closed (the heartbeat has not run yet)
C6_Witness ==
    /\ pc["main"] = "connect_178"
    /\ pc["hb"] = "start_196"
    /\ nconn = 1
    /\ sock = NoSock
    /\ fds = {}

\* C7: the handle is present exactly when the session is connected.
C7_HandleIffConnected == (sock # NoSock) <=> IsConnected

\* C8 as stated (checked under SpecHandle): on a liveness reply PONG:<token>,
\* token a known state name or an integer, handle_data ends by returning false
\* with last_ping = now and the state set to the token's ordinal.
TokenOf(text) == SubSeq(text, Len(PONG) + 2, Len(text))

IsReply(text) ==
    /\ Len(text) > Len(PONG) + 1
    /\ SubSeq(text, 1, Len(PONG) + 1) = PONG \o <<":">>
    /\ \/ \E m \in MAP : m[1] = TokenOf(text)
       \/ ParseInt(TokenOf(text)).ok

OrdinalOf(tok) ==
    IF \E m \in MAP : m[1] = tok THEN (CHOOSE m \in MAP : m[1] = tok)[2]
    ELSE ParseInt(tok).val

HandleEnded == pc["main"] \in {"loop_255r", "main_310"}

IsIntReply(text) == IsReply(text) /\ ParseInt(TokenOf(text)).ok

C9_ExitOnlyEofOrInterrupt ==
    pc["main"] \in MainEnded => pc["main"] \in {"exit_0", "exit_1"}

\* C10: once the main thread has ended, the heartbeat is stopped: running is
\* False or the heartbeat thread has already ended.
C10_HeartStoppedAtExit ==
    pc["main"] \in MainEnded => (~running \/ pc["hb"] \in HbEnded)

\* C11: once heart.stop() has been called (lines 300, 304: the main thread is
\* past one of them), the thread running Heart.start begins no new callback
\* invocation: it never again goes from the test of line 197 into ping.
StopCalled == pc["main"] \in {"main_301", "main_305", "exit_0", "exit_1"}

C11_NoCallbackAfterStop ==
    [][StopCalled => ~(pc["hb"] = "start_197" /\ pc'["hb"] = "ping_118")]_vars

\* C12 (checked under SpecLive): whenever the session is disconnected while
\* the main thread is in the connected part of loop (lines 248-264 and what
\* they call), the main thread eventually is at line 169, the
\* create_connection of connect, unless the process is shutting down; after
\* a failed connect it eventually tries again, and after a successful one it
\* eventually either sends the discovery command or connects again.
ConnectedPCs ==
    {"loop_248", "loop_250", "loop_250r", "loop_251", "loop_251s", "loop_253",
     "loop_255", "loop_255r", "loop_256", "loop_258", "loop_264"}

InConnected ==
    \/ pc["main"] \in ConnectedPCs
    \/ \E i \in 1..Len(stk["main"]) : stk["main"][i] \in ConnectedPCs

\* an interrupt was delivered, or end of input was read (sys.exit(0))
ShuttingDown ==
    intr > 0 \/ pc["main"] \in {"main_300", "main_301", "exit_0"}

C12_Reconnects ==
    /\ (InConnected /\ ~IsConnected)
          ~> (pc["main"] = "connect_169" \/ ShuttingDown)
    /\ (pc["main"] = "loop_242")
          ~> (pc["main"] = "connect_169" \/ ShuttingDown)
    /\ (pc["main"] = "loop_240")
          ~> (pc["main"] \in {"connect_169", "loop_248"} \/ ShuttingDown)

\* C12 witness: the first connection delivered a reply, the heartbeat closed
\* it for timeout (it has not yet returned from ping), and the main thread has
\* left the connected part and is about to connect again
C12_Witness ==
    /\ pc["main"] = "connect_169"
    /\ pc["hb"] = "ping_123r"
    /\ nconn = 1
    /\ sock = NoSock
    /\ state = Some(6)
    /\ intr = 0

\* C13: on every connection the first text written to the socket is the
\* discovery command "help\n" and it is written once: a write of "help\n"
\* finds it not yet written to that socket, and a write of anything else (a
\* heartbeat probe, a user command) finds it already written.
Writes(t) ==
    /\ pc[t] = "send_152"
    /\ pc'[t] = Top(stk[t])
    /\ stk'[t] = Pop(stk[t])

C13_HelpFirstAndOnce ==
    [][\A t \in Threads :
          Writes(t) => IF SendArgs(t) = {HELP}
                       THEN <<sock, HELP>> \notin sent
                       ELSE <<sock, HELP>> \in sent]_vars

\* C14 (checked under SpecPrompt): with p the visible length of the line left
\* in LAST_PROMPT and n the visible length of the line make_prompt renders,
\* the returned text is that line followed by exactly p - n spaces if n < p,
\* and by none if n >= p.
TrailingSpaces(t) == Len(t) - Len(Rstrip(t))

C14_PadsByVisibleWidth ==
    [][(pc["main"] = "make_prompt_211" /\ pc'["main"] = "make_prompt_231")
         => LET p == Len(AnsiStrip(LAST_PROMPT))
                n == Len(AnsiStrip(Rstrip(rv'["main"])))
            IN  TrailingSpaces(rv'["main"]) = IF n < p THEN p - n ELSE 0]_vars

\* The 14 stages the claim speaks of, each written out with the ordinal its
\* canonical name and its short code share: <<ordinal, name, short code>>.
Stages ==
    { <<0, <<"P", "O", "S", "T">>, <<"P", "O", "S", "T">>>>,
      <<1, <<"B", "O", "O", "T">>, <<"B", "O", "O", "T">>>>,
      <<2, <<"L", "P", "F", "I", "L", "L">>, <<"L", "P", "F", "L">>>>,
      <<3, <<"H", "P", "F", "I", "L", "L">>, <<"H", "P", "F", "L">>>>,
      <<4, <<"L", "O", "A", "D">>, <<"L", "O", "A", "D">>>>,
      <<5, <<"S", "T", "A", "N", "D", "B", "Y">>, <<"S", "T", "B", "Y">>>>,
      <<6, <<"A", "R", "M", "E", "D">>, <<"A", "R", "M", "D">>>>,
      <<7, <<"P", "U", "S", "H", "I", "N", "G">>, <<"P", "U", "S", "H">>>>,
      <<8, <<"C", "O", "A", "S", "T", "I", "N", "G">>, <<"C", "O", "A", "S">>>>,
      <<9, <<"B", "R", "A", "K", "I", "N", "G">>, <<"B", "R", "K", "E">>>>,
      <<10, <<"V", "E", "N", "T">>, <<"V", "E", "N", "T">>>>,
      <<11, <<"R", "E", "T", "R", "I", "E", "V", "A", "L">>,
            <<"R", "E", "T", "R">>>>,
      <<12, <<"E", "M", "E", "R", "G", "E", "N", "C", "Y">>,
            <<"E", "M", "R", "G">>>>,
      <<13, <<"S", "H", "U", "T", "D", "O", "W", "N">>,
            <<"S", "D", "W", "N">>>> }

StageNames == { g[2] : g \in Stages }
Constructed == pc["main"] \in {"PodState_r", "is_fault_r", "is_moving_r",
                               "str_r", "short_r"}

C16_FaultAndMoving ==
    /\ pc["main"] = "is_fault_r" => (rv["main"] <=> state[1] = 12)
    /\ pc["main"] = "is_moving_r" => (rv["main"] <=> state[1] \in {7, 8, 9})

\* C16 witness: for COASTING (8) is_moving() has returned true
C16_Witness ==
    /\ pc["main"] = "is_moving_r"
    /\ state = Some(8)
    /\ rv["main"] = TRUE

\* C17: in the connect phase pod.state is None, so that make_prompt takes the
\* branch of the connecting indicator (line 221): when connect() has just
\* returned (recieved is 0) and when the prompt of line 244 is rendered after
\* a failed attempt.
C17_NoStateWhileConnecting ==
    pc["main"] \in {"loop_240", "loop_242"} => state = None

\* C18: when an error has escaped loop() and main() is about to call it again
\* (the except clauses of lines 307-311), the session is not connected, so
\* that the restarted loop connects before it sends anything.
C18_RestartsDisconnected ==
    pc["main"] \in {"main_308", "main_310"} => ~IsConnected

\* C19: the thread running Heart.start never ends on its own: no error
\* escapes Heart.start (an uncaught error in the callback ends the thread),
\* and it leaves the loop of line 197 only after heart.stop() was called.
C19_HeartNeverEndsOnItsOwn ==
    /\ pc["hb"] # "uncaught"
    /\ pc["hb"] = "done" => StopCalled

\* C20 (checked under SpecLive): when the peer has closed the connection the
\* session is on, then, unless the heartbeat thread has ended or the process
\* is shutting down, the session eventually is not connected and the main
\* thread eventually is at line 169, the create_connection of connect.
PeerClosed == IsConnected /\ sock \in eof

HeartGone == pc["hb"] \in HbEnded

C20_PeerCloseDisconnects ==
    /\ PeerClosed ~> (~IsConnected \/ HeartGone \/ ShuttingDown)
    /\ PeerClosed ~> (pc["main"] = "connect_169" \/ HeartGone \/ ShuttingDown)

\* C20 witness: no reply ever arrived on the connection the peer closed (so
\* no timeout applies); a probe was written to it and answered with a reset,
\* the next probe's send raised, and the heartbeat thread, in the close() of
\* line 155, has closed the descriptor: the session is no longer connected
C20_Witness ==
    /\ pc["hb"] = "close_183"
    /\ Top(stk["hb"]) = "send_155r"
    /\ sock \in eof \cap rst
    /\ <<sock, PING>> \in sent
    /\ recieved = 0
    /\ ~IsConnected
    /\ InConnected
    /\ intr = 0
====
